---- MODULE Spec2Model ----
(***************************************************************************)
(* Model of the tool get_top_companies_by_tx_volume of the Financial AI    *)
(* agent, in its two versions:                                             *)
(*   src/ai-3.py  one fetch, aggregate, format                             *)
(*   src/ai-4.py  trading-day resolver (get_next_available_date) around    *)
(*                fetch_data and aggregate_volumes                         *)
(* A date string "YYYY-MM-DD" is the triple <<Y, M, D>> of its fields; the *)
(* API's JSON document is a sequence of days (the values of the mapping,   *)
(* in document order), each a sequence of records.                         *)
(***************************************************************************)
EXTENDS Integers, Sequences, FiniteSets, TLC

VARIABLES script, start_date, end_date, top_n, cand, pc, probes, raised,
          outcome, valid_date, data, company_data

vars == <<script, start_date, end_date, top_n, cand, pc, probes, raised,
          outcome, valid_date, data, company_data>>

----------------------------------------------------------------------------
(* Bounds *)
MaxDays == 2
MaxRecs == 3
MaxTopN == 3
MaxProbes == 3

(* datetime.MAXYEAR: the last year a datetime can hold *)
MAXYEAR == 9999

Names == {"A", "B", "C"}
Symbol(name) == CASE name = "A" -> "AAA" [] name = "B" -> "BBB" [] OTHER -> "CCC"
Volumes == {1, 2}
Records == {[company_name |-> nm, symbol |-> Symbol(nm), volume |-> v] :
              nm \in Names, v \in Volumes}
SeqsUpTo(S, n) == UNION {[1..k -> S] : k \in 0..n}

\* the documents of at most MaxDays dates and MaxRecs records in all: every
\* way of cutting a sequence of records into the lists of j dates
Cuts(f, j) ==
  {c \in [0..j -> 0..Len(f)] :
     c[0] = 0 /\ c[j] = Len(f) /\ \A i \in 1..j : c[i - 1] <= c[i]}
SplitAt(f, c, j) == [i \in 1..j |-> SubSeq(f, c[i - 1] + 1, c[i])]
IsPayload(d) ==
  \E f \in SeqsUpTo(Records, MaxRecs), j \in 0..MaxDays :
    \E c \in Cuts(f, j) : d = SplitAt(f, c, j)
TopNs == -1..MaxTopN

Min(a, b) == IF a <= b THEN a ELSE b
Max(a, b) == IF a >= b THEN a ELSE b

----------------------------------------------------------------------------
(* Dates: datetime.strptime(s, "%Y-%m-%d"), + timedelta(days=1), strftime *)
IsLeap(y) == (y % 4 = 0) /\ ((y % 100 # 0) \/ (y % 400 = 0))
DaysInMonth(y, m) ==
  IF m = 2 THEN (IF IsLeap(y) THEN 29 ELSE 28)
  ELSE IF m \in {4, 6, 9, 11} THEN 30 ELSE 31

\* strptime succeeds exactly on the strings that name a calendar day
strptime_ok(s) ==
  /\ s[1] \in 1..MAXYEAR
  /\ s[2] \in 1..12
  /\ s[3] \in 1..DaysInMonth(s[1], s[2])

\* datetime + timedelta(days=1) raises OverflowError past 9999-12-31
plus_day_overflows(d) == d = <<MAXYEAR, 12, 31>>

plus_day(d) ==
  IF d[3] < DaysInMonth(d[1], d[2]) THEN <<d[1], d[2], d[3] + 1>>
  ELSE IF d[2] < 12 THEN <<d[1], d[2] + 1, 1>>
  ELSE <<d[1] + 1, 1, 1>>

\* calendar order of two dates
DateLT(a, b) ==
  \/ a[1] < b[1]
  \/ a[1] = b[1] /\ a[2] < b[2]
  \/ a[1] = b[1] /\ a[2] = b[2] /\ a[3] < b[3]

----------------------------------------------------------------------------
(* aggregate_volumes *)

\* lines 85-88 (ai-4) / 76-79 (ai-3): look up or create, then add
IndexOf(cv, name) ==
  IF \E i \in 1..Len(cv) : cv[i].company_name = name
  THEN CHOOSE i \in 1..Len(cv) : cv[i].company_name = name
  ELSE 0

add_record_overwrite(cv, company) ==
  LET i == IndexOf(cv, company.company_name) IN
  IF i = 0
  THEN Append(cv, [company_name |-> company.company_name,
                   symbol |-> company.symbol,
                   total_volume |-> company.volume])
  ELSE [cv EXCEPT ![i].total_volume = company.volume]

add_record(cv, company) ==
  LET i == IndexOf(cv, company.company_name)
      cv1 == IF i = 0
             THEN Append(cv, [company_name |-> company.company_name,
                              symbol |-> company.symbol,
                              total_volume |-> 0])
             ELSE cv
      j == IF i = 0 THEN Len(cv1) ELSE i
  IN [cv1 EXCEPT ![j].total_volume = @ + company.volume]

RECURSIVE add_companies(_, _)
add_companies(cv, companies) ==
  IF companies = <<>> THEN cv
  ELSE add_companies(add_record(cv, Head(companies)), Tail(companies))

RECURSIVE company_volumes(_, _)
company_volumes(cv, data_dict) ==
  IF data_dict = <<>> THEN cv
  ELSE company_volumes(add_companies(cv, Head(data_dict)), Tail(data_dict))

\* sorted(items, key=total_volume, reverse=True): stable, descending
insert_asc(s, e) ==
  LET k == Cardinality({i \in 1..Len(s) : s[i].total_volume <= e.total_volume})
  IN SubSeq(s, 1, k) \o <<e>> \o SubSeq(s, k + 1, Len(s))

insert_desc(s, e) ==
  LET k == Cardinality({i \in 1..Len(s) : s[i].total_volume >= e.total_volume})
  IN SubSeq(s, 1, k) \o <<e>> \o SubSeq(s, k + 1, Len(s))

RECURSIVE sorted_companies(_)
sorted_companies(items) ==
  IF items = <<>> THEN <<>>
  ELSE insert_desc(sorted_companies(SubSeq(items, 1, Len(items) - 1)),
                   items[Len(items)])

\* Python's s[:n]
slice_to(s, n) ==
  IF n >= 0 THEN SubSeq(s, 1, Min(n, Len(s)))
  ELSE SubSeq(s, 1, Max(Len(s) + n, 0))

\* ai-3.py: aggregate_volumes(data_dict, top_n)
aggregate_volumes3(data_dict, n) ==
  slice_to(sorted_companies(company_volumes(<<>>, data_dict)), n)

\* ai-4.py: aggregate_volumes(data_dict), top_n from the enclosing call
aggregate_volumes4(data_dict) ==
  slice_to(sorted_companies(company_volumes(<<>>, data_dict)), top_n)

aggregate_volumes(data_dict) ==
  IF script = "ai3" THEN aggregate_volumes3(data_dict, top_n)
  ELSE aggregate_volumes4(data_dict)

----------------------------------------------------------------------------
(* The upstream API as seen by one requests.get: what a response can be *)
\*   ok        2xx, JSON of the documented shape
\*   misshaped 2xx, JSON that decodes but is not a mapping of record lists
\*   badjson   2xx, body that response.json() cannot decode
\*   http      non-2xx status (raise_for_status raises HTTPError)
\*   transport requests.get raises (connection error, timeout)
ProbePayloads ==
  { <<>>,
    << <<>> >>,
    << <<[company_name |-> "A", symbol |-> "AAA", volume |-> 1]>> >>,
    << <<[company_name |-> "A", symbol |-> "AAA", volume |-> 1],
         [company_name |-> "B", symbol |-> "BBB", volume |-> 2]>>,
       <<[company_name |-> "C", symbol |-> "CCC", volume |-> 2],
         [company_name |-> "C", symbol |-> "CCC", volume |-> 1]>> >> }

Responses ==
  {[kind |-> k, body |-> <<>>] : k \in {"misshaped", "badjson", "http", "transport"}}
    \cup {[kind |-> "ok", body |-> p] : p \in ProbePayloads}

StartDates == { <<2024, 2, 28>>, <<2023, 2, 28>>, <<2023, 12, 31>>,
                <<9999, 12, 30>>, <<2024, 2, 30>> }
EndDates == { <<2024, 2, 29>>, <<9999, 12, 31>> }

NoDate == <<0, 0, 0>>

\* retrieve_from_endpoint: the exception that leaves it ("" for none)
retrieve_from_endpoint_reraise(resp) ==
  CASE resp.kind = "transport" -> "ConnectionError"
    [] resp.kind = "http"      -> "HTTPError"
    [] resp.kind = "badjson"   -> "JSONDecodeError"
    [] OTHER                   -> ""

retrieve_from_endpoint(resp) ==
  CASE resp.kind = "transport" -> "ConnectionError"
    [] resp.kind = "http"      -> "SystemExit"
    [] resp.kind = "badjson"   -> "JSONDecodeError"
    [] OTHER                   -> ""

\* the exception raised by "fetch, then aggregate" on a response
call_exception(resp) ==
  IF retrieve_from_endpoint(resp) # "" THEN retrieve_from_endpoint(resp)
  ELSE IF resp.kind = "misshaped" THEN "KeyError"
  ELSE ""

\* `except Exception`: SystemExit derives from BaseException only
except_Exception(exc) ==
  exc \in {"ConnectionError", "HTTPError", "JSONDecodeError", "KeyError",
           "ValueError", "OverflowError"}

\* the URL of the most-traded request; fetch_data does not use its argument
fetch_data_url(date) ==
  [start |-> start_date, end |-> end_date, n_stock |-> top_n]

Probe(date, resp) ==
  [date |-> date, url |-> fetch_data_url(date), resp |-> resp.kind]

----------------------------------------------------------------------------
Init ==
  /\ script \in {"ai3", "ai4"}
  /\ start_date \in StartDates
  /\ end_date \in EndDates
  /\ top_n \in TopNs
  /\ cand = start_date
  /\ pc = "probe"
  /\ probes = <<>>
  /\ raised = <<>>
  /\ outcome = "none"
  /\ valid_date = NoDate
  /\ data = <<>>
  /\ company_data = <<>>

\* ai-3.py get_top_companies_by_tx_volume: one fetch; every exception leaves
\* the tool
Invoke3(resp) ==
  /\ script = "ai3" /\ pc = "probe"
  /\ probes' = Append(probes, Probe(cand, resp))
  /\ pc' = "done"
  /\ IF call_exception(resp) = ""
     THEN /\ data' = resp.body
          /\ company_data' = aggregate_volumes(resp.body)
          /\ outcome' = "returned"
          /\ raised' = raised
     ELSE /\ outcome' = call_exception(resp)
          /\ raised' = Append(raised, call_exception(resp))
          /\ UNCHANGED <<data, company_data>>
  /\ UNCHANGED <<script, start_date, end_date, top_n, cand, valid_date>>

\* ai-4.py get_next_available_date, one turn of the loop that returns
ProbeResolved(resp) ==
  /\ script = "ai4" /\ pc = "probe" /\ Len(probes) < MaxProbes
  /\ call_exception(resp) = ""
  /\ probes' = Append(probes, Probe(cand, resp))
  /\ data' = resp.body
  /\ company_data' = aggregate_volumes(resp.body)
  /\ valid_date' = cand
  /\ outcome' = "returned"
  /\ pc' = "done"
  /\ UNCHANGED <<script, start_date, end_date, top_n, cand, raised>>

\* an exception that `except Exception` does not catch ends the call
ProbeUncaught(resp) ==
  /\ script = "ai4" /\ pc = "probe" /\ Len(probes) < MaxProbes
  /\ call_exception(resp) # "" /\ ~except_Exception(call_exception(resp))
  /\ probes' = Append(probes, Probe(cand, resp))
  /\ raised' = Append(raised, call_exception(resp))
  /\ outcome' = call_exception(resp)
  /\ pc' = "done"
  /\ UNCHANGED <<script, start_date, end_date, top_n, cand, valid_date,
                 data, company_data>>

\* a caught exception: the handler advances the candidate by one day
ProbeAdvance(resp) ==
  /\ script = "ai4" /\ pc = "probe" /\ Len(probes) < MaxProbes
  /\ except_Exception(call_exception(resp))
  /\ strptime_ok(cand) /\ ~plus_day_overflows(cand)
  /\ probes' = Append(probes, Probe(cand, resp))
  /\ raised' = Append(raised, call_exception(resp))
  /\ cand' = plus_day(cand)
  /\ UNCHANGED <<script, start_date, end_date, top_n, pc, outcome,
                 valid_date, data, company_data>>

\* a caught exception, and the handler itself raises: strptime on a string
\* that is no date (ValueError) or the day after 9999-12-31 (OverflowError)
ProbeAdvanceRaises(resp) ==
  /\ script = "ai4" /\ pc = "probe" /\ Len(probes) < MaxProbes
  /\ except_Exception(call_exception(resp))
  /\ ~strptime_ok(cand) \/ plus_day_overflows(cand)
  /\ probes' = Append(probes, Probe(cand, resp))
  /\ LET exc == IF ~strptime_ok(cand) THEN "ValueError" ELSE "OverflowError"
     IN /\ raised' = raised \o <<call_exception(resp), exc>>
        /\ outcome' = exc
  /\ pc' = "done"
  /\ UNCHANGED <<script, start_date, end_date, top_n, cand, valid_date,
                 data, company_data>>

Next ==
  \/ \E resp \in Responses : Invoke3(resp)
  \/ \E resp \in Responses : ProbeResolved(resp)
  \/ \E resp \in Responses : ProbeUncaught(resp)
  \/ \E resp \in Responses : ProbeAdvance(resp)
  \/ \E resp \in Responses : ProbeAdvanceRaises(resp)

Spec == Init /\ [][Next]_vars

----------------------------------------------------------------------------
(* aggregate_volumes on its own, over every document within the bounds *)
InitAgg ==
  /\ IsPayload(data)
  /\ script \in {"ai3", "ai4"}
  /\ top_n \in TopNs
  /\ pc = "aggregate"
  /\ start_date = NoDate /\ end_date = NoDate /\ cand = NoDate
  /\ valid_date = NoDate
  /\ probes = <<>> /\ raised = <<>>
  /\ outcome = "none"
  /\ company_data = <<>>

Aggregate3 ==
  /\ script = "ai3" /\ pc = "aggregate"
  /\ company_data' = aggregate_volumes3(data, top_n)
  /\ pc' = "aggregated"
  /\ UNCHANGED <<script, start_date, end_date, top_n, cand, probes, raised,
                 outcome, valid_date, data>>

Aggregate4 ==
  /\ script = "ai4" /\ pc = "aggregate"
  /\ company_data' = aggregate_volumes4(data)
  /\ pc' = "aggregated"
  /\ UNCHANGED <<script, start_date, end_date, top_n, cand, probes, raised,
                 outcome, valid_date, data>>

NextAgg == Aggregate3 \/ Aggregate4

SpecAgg == InitAgg /\ [][NextAgg]_vars

----------------------------------------------------------------------------
(* What the properties speak about, computed from the input document *)
RECURSIVE Flatten(_)
Flatten(d) == IF d = <<>> THEN <<>> ELSE Head(d) \o Flatten(Tail(d))

InputRecords == Flatten(data)
InputNames == {InputRecords[i].company_name : i \in 1..Len(InputRecords)}

RECURSIVE SumVolume(_, _)
SumVolume(recs, nm) ==
  IF recs = <<>> THEN 0
  ELSE (IF Head(recs).company_name = nm THEN Head(recs).volume ELSE 0)
         + SumVolume(Tail(recs), nm)

RECURSIVE SumAll(_)
SumAll(recs) == IF recs = <<>> THEN 0 ELSE Head(recs).volume + SumAll(Tail(recs))

RECURSIVE SumTotals(_)
SumTotals(cd) ==
  IF cd = <<>> THEN 0 ELSE Head(cd).total_volume + SumTotals(Tail(cd))

FirstSeen(nm) ==
  CHOOSE i \in 1..Len(InputRecords) :
    /\ InputRecords[i].company_name = nm
    /\ \A j \in 1..(i - 1) : InputRecords[j].company_name # nm

EntryNames == {company_data[i].company_name : i \in 1..Len(company_data)}

FailedFetch == {"http", "transport", "badjson"}

----------------------------------------------------------------------------
\* C1: when every fetch of the resolver has failed and the resolver has
\* stopped, it stopped with the NoTradingDataError outcome.
C1_ResolverTermination ==
  (script = "ai4" /\ pc = "done"
     /\ \A k \in 1..Len(probes) : probes[k].resp \in FailedFetch)
  => outcome = "NoTradingDataError"

\* C2: every probe of the resolver fetches the window that starts at the
\* candidate date it is probing, and the date returned is the date queried.
C2_QueriedDateIsCandidate ==
  script = "ai4" =>
    /\ \A k \in 1..Len(probes) : probes[k].url.start = probes[k].date
    /\ outcome = "returned" => valid_date = probes[Len(probes)].url.start

\* C3: the resolver returns only a non-empty ranking (for a valid top_n).
C3_ResolvedIsNonEmpty ==
  (script = "ai4" /\ top_n >= 1 /\ outcome = "returned") => company_data # <<>>

\* C4: end_date is the same in every request, and for a window that is not
\* inverted at entry no probe is made for a candidate later than end_date.
C4_CandidateWithinWindow ==
  (script = "ai4" /\ ~DateLT(end_date, start_date)) =>
    \A k \in 1..Len(probes) :
      /\ probes[k].url.end = end_date
      /\ ~DateLT(end_date, probes[k].date)

\* C5: aggregate_volumes returns at most one entry per company_name, each
\* with the exact sum of that company's volumes over all dates; when top_n
\* does not truncate, every company has an entry and the totals add up to
\* the sum of all input volumes.
C5_Conservation ==
  pc = "aggregated" =>
    /\ \A i, j \in 1..Len(company_data) :
         company_data[i].company_name = company_data[j].company_name => i = j
    /\ \A i \in 1..Len(company_data) :
         /\ company_data[i].company_name \in InputNames
         /\ company_data[i].total_volume
              = SumVolume(InputRecords, company_data[i].company_name)
    /\ top_n >= Cardinality(InputNames) =>
         /\ EntryNames = InputNames
         /\ SumTotals(company_data) = SumAll(InputRecords)

C5_Witness ==
  /\ pc = "aggregated"
  /\ Len(data) = 2 /\ Len(company_data) = 2
  /\ top_n >= Cardinality(InputNames)
  /\ \E i \in 1..Len(data[1]), j \in 1..Len(data[2]) :
       data[1][i].company_name = data[2][j].company_name
  /\ SumAll(InputRecords) > 3

\* C6: the result of aggregate_volumes is in descending order of
\* total_volume, and entries with the same total_volume are in the order in
\* which their company_name first occurs in the input.
C6_RankingOrder ==
  pc = "aggregated" =>
    \A i \in 1..(Len(company_data) - 1) :
      /\ company_data[i].total_volume >= company_data[i + 1].total_volume
      /\ company_data[i].total_volume = company_data[i + 1].total_volume
           => FirstSeen(company_data[i].company_name)
                < FirstSeen(company_data[i + 1].company_name)

C6_Witness ==
  /\ pc = "aggregated" /\ Len(company_data) = 3
  /\ company_data[1].total_volume > company_data[2].total_volume
  /\ company_data[2].total_volume = company_data[3].total_volume
  /\ FirstSeen(company_data[1].company_name)
       > FirstSeen(company_data[3].company_name)

\* C7: for every top_n the result of aggregate_volumes has
\* min(top_n, number of distinct company names) entries, the first ones of
\* the full ranking.
C7_Truncation ==
  pc = "aggregated" =>
    /\ Len(company_data) = Min(top_n, Cardinality(InputNames))
    /\ company_data
         = SubSeq(sorted_companies(company_volumes(<<>>, data)), 1,
                  Len(company_data))

\* C8: with top_n <= 0 no request is ever issued and the call ends with
\* InvalidArgument.
C8_InvalidTopNRejected ==
  top_n <= 0 =>
    /\ probes = <<>>
    /\ pc = "done" => outcome = "InvalidArgument"

\* C9: an invocation in which an error was raised ends with an error
\* outcome, never with a returned result.
C9_ErrorsPropagate ==
  (pc = "done" /\ raised # <<>>) => outcome \notin {"returned", "none"}

====
